---- MODULE Spec2Model ----
(***************************************************************************)
(* Model of the cooperative scheduler of events.py (class Work, class      *)
(* Task).  The Work instance is the record `work`; Task objects live in    *)
(* the object store work.objs and are referred to by their index, so that  *)
(* the registry, the heap and the flag waitlists can share one mutable     *)
(* Task the way the Python code shares object references.  The message     *)
(* ring of ringbuffer.py (class Ring) is the record `ring`, its arena a     *)
(* sequence of bytes.                                                       *)
(***************************************************************************)
EXTENDS Integers, Sequences, FiniteSets, TLC

VARIABLES
    work,   \* the Work instance and the Task objects it has created
    clock,  \* the value ticks_ms() returns
    pc,     \* "idle": outside start(); "loop": at the while test; "job": inside task.job
    now,    \* local `now` of start()
    cur,    \* local `task` of start(): the Task being run (0 when none)
    args,   \* the arguments task.job was last called with
    ret,    \* the last public call made and the value it returned
    calls,  \* the number of public calls the program may still make
    batch   \* the latest trigger_event that woke a task: its time, and the tasks it
            \* woke that have not run since, in waitlist order

VARIABLES
    ring,   \* a Ring instance created with head = tail = 0
    twin,   \* a second Ring of the same size, given the same calls as `ring`
    res,    \* the last Ring call made on `ring` and its result
    res2,   \* the result of the same call on `twin`
    sent    \* the (msg_id, payload) pairs put and neither got nor pulled yet, oldest first

\* the variables of the ring
rvars == <<ring, twin, res, res2, sent>>

vars == <<work, clock, pc, now, cur, args, ret, calls, batch, ring, twin, res, res2, sent>>

----------------------------------------------------------------------------
\* Bounds of the model.

\* the smallest max_tasks given to Work(max_tasks=...); scenarios that need room
\* for more tasks add to it
MaxTasks == 1
\* the smallest number of public calls (do, on, cancel, ...) a program makes in
\* one run; longer scenarios add to it
MaxCalls == 3
\* the clock is observed at the instants 0..MaxFine and at the two maintenance periods
MaxFine == 1

\* Program constants.
CLEANUP_MS == 10000
COMPACT_MS == 60000
SLEEP_CAP == 100
ID_MODULUS == 1000000
ID_PROBES == 100

\* Inputs.
Flags == {"f", "g"}
NoFlag == "None"
Delays == {0, 2}
Everys == {2}
Intervals == {0, 2}
\* a Python argument: a tuple, or a scalar that the code wraps into a 1-tuple
Tup(s) == [tup |-> TRUE, items |-> s]
Scalar(x) == [tup |-> FALSE, items |-> <<x>>]
Pkgs == {Tup(<<>>), Tup(<<1>>), Scalar(2)}
TaskIdArgs == {0, 2}

Instants == (0..MaxFine) \cup {CLEANUP_MS, COMPACT_MS}

----------------------------------------------------------------------------
\* Python values.

\* `if not isinstance(pkg, tuple): pkg = (pkg,)`
as_tuple(v) == IF v.tup THEN v.items ELSE <<v.items[1]>>

\* return values: None, a bool, an int, a status dict (val is the Task reported), an exception
RNone == [kind |-> "none", val |-> 0]
RBool(b) == [kind |-> "bool", val |-> IF b THEN 1 ELSE 0]
RInt(n) == [kind |-> "int", val |-> n]
RRaise == [kind |-> "raise", val |-> 0]

EmptyMap == [x \in {} |-> 0]
Put(fn, k, v) == [x \in (DOMAIN fn) \cup {k} |-> IF x = k THEN v ELSE fn[x]]
Drop(fn, k) == [x \in (DOMAIN fn) \ {k} |-> fn[x]]

Range(s) == {s[i] : i \in DOMAIN s}

\* list.remove(x): delete the first occurrence
First(s, x) == CHOOSE i \in DOMAIN s : s[i] = x /\ \A j \in 1..(i-1) : s[j] # x
list_remove(s, x) ==
    LET i == First(s, x) IN SubSeq(s, 1, i-1) \o SubSeq(s, i+1, Len(s))

\* [t for t in s if P(t)]
RECURSIVE Filter(_, _)
Filter(s, keep) ==
    IF s = <<>> THEN <<>>
    ELSE (IF Head(s) \in keep THEN <<Head(s)>> ELSE <<>>) \o Filter(Tail(s), keep)

----------------------------------------------------------------------------
\* class Task

Task(params, delay, repeat, flag, task_id, clk) ==
    [params |-> params, delay |-> delay, repeat |-> repeat, flag |-> flag,
     task_id |-> task_id, cancelled |-> FALSE, event_triggered |-> FALSE,
     next_run |-> clk + delay]

\* Task.__lt__
Task_lt(objs, a, b) == objs[a].next_run < objs[b].next_run

----------------------------------------------------------------------------
\* heapq on a list of Task references (1-based positions: parent of p is p \div 2)

RECURSIVE heap_siftdown(_, _, _, _, _)
heap_siftdown(objs, h, item, start_pos, pos) ==
    IF pos > start_pos /\ Task_lt(objs, item, h[pos \div 2])
    THEN heap_siftdown(objs, [h EXCEPT ![pos] = h[pos \div 2]], item, start_pos, pos \div 2)
    ELSE [h EXCEPT ![pos] = item]

RECURSIVE heap_bubble(_, _, _, _, _)
heap_bubble(objs, h, item, start_pos, pos) ==
    LET l == 2 * pos
        c == IF l + 1 <= Len(h) /\ ~Task_lt(objs, h[l], h[l + 1]) THEN l + 1 ELSE l
    IN IF l <= Len(h)
       THEN heap_bubble(objs, [h EXCEPT ![pos] = h[c]], item, start_pos, c)
       ELSE heap_siftdown(objs, h, item, start_pos, pos)

\* heap_bubble moves the smaller child up until a leaf is reached, then sifts the item down
heap_siftup(objs, h, pos) == heap_bubble(objs, h, h[pos], pos, pos)

heappush(objs, h, item) ==
    heap_siftdown(objs, Append(h, item), item, 1, Len(h) + 1)

\* the list left by heappop; the popped item is h[1]
heappop(objs, h) ==
    LET n == Len(h)
        rest == SubSeq(h, 1, n - 1)
    IN IF n <= 1 THEN <<>>
       ELSE heap_siftup(objs, [rest EXCEPT ![1] = h[n]], 1)

RECURSIVE heapify_from(_, _, _)
heapify_from(objs, h, i) ==
    IF i < 1 THEN h ELSE heapify_from(objs, heap_siftup(objs, h, i), i - 1)

heapify(objs, h) == heapify_from(objs, h, Len(h) \div 2)

----------------------------------------------------------------------------
\* class Work

\* Work.__init__; _current_tid does not exist yet (0 stands for the missing attribute)
Work(max_tasks, clk) ==
    [objs |-> <<>>, heap |-> <<>>, tasks |-> EmptyMap, flags |-> EmptyMap,
     task_counter |-> 0, running |-> FALSE, current_tid |-> 0, max_tasks |-> max_tasks,
     last_cleanup |-> clk, last_heap_compact |-> clk]

Registered(w) == DOMAIN w.tasks

\* iterations of the while loop of _generate_task_id evaluated in one stretch
PROBE_STRETCH == 10

\* up to n iterations of `while cnt > 0`: [ok, id, counter]
RECURSIVE probe_stretch(_, _, _)
probe_stretch(w, counter, n) ==
    LET c == (counter % ID_MODULUS) + 1
    IN IF n <= 0 THEN [ok |-> FALSE, id |-> 0, counter |-> counter]
       ELSE IF c \notin Registered(w) THEN [ok |-> TRUE, id |-> c, counter |-> c]
       ELSE probe_stretch(w, c, n - 1)

\* Work._generate_task_id: [ok, id, counter]; ok = FALSE is the OSError.  The
\* loop is evaluated a stretch at a time, which bounds the depth of evaluation.
RECURSIVE generate_task_id_loop(_, _, _)
generate_task_id_loop(w, counter, cnt) ==
    LET n == IF cnt < PROBE_STRETCH THEN cnt ELSE PROBE_STRETCH
        s == probe_stretch(w, counter, n)
    IN IF cnt <= 0 \/ s.ok THEN s
       ELSE generate_task_id_loop(w, s.counter, cnt - n)

\* fault model: one probe fewer
generate_task_id_short(w) == generate_task_id_loop(w, w.task_counter, ID_PROBES - 1)

generate_task_id(w) == generate_task_id_loop(w, w.task_counter, ID_PROBES)

Cancelled(w) == {o \in DOMAIN w.objs : w.objs[o].cancelled}

\* fault model: a pass that filters the waitlists and keeps the emptied ones
cleanup_lazy_keep_keys(w, clk) ==
    IF clk - w.last_cleanup < CLEANUP_MS THEN w
    ELSE LET alive == (DOMAIN w.objs) \ Cancelled(w)
             ids == {tid \in Registered(w) : w.tasks[tid] \in alive}
         IN [w EXCEPT !.last_cleanup = clk,
                      !.flags = [k \in DOMAIN w.flags |-> Filter(w.flags[k], alive)],
                      !.tasks = [tid \in ids |-> w.tasks[tid]]]

\* Work._cleanup_lazy
cleanup_lazy(w, clk) ==
    IF clk - w.last_cleanup < CLEANUP_MS THEN w
    ELSE LET alive == (DOMAIN w.objs) \ Cancelled(w)
             fl == [k \in DOMAIN w.flags |-> Filter(w.flags[k], alive)]
             keys == {k \in DOMAIN fl : fl[k] # <<>>}
             ids == {tid \in Registered(w) : w.tasks[tid] \in alive}
         IN [w EXCEPT !.last_cleanup = clk,
                      !.flags = [k \in keys |-> fl[k]],
                      !.tasks = [tid \in ids |-> w.tasks[tid]]]

\* Work._compact_heap
compact_heap(w, clk) ==
    IF clk - w.last_heap_compact < COMPACT_MS THEN w
    ELSE LET alive == Filter(w.heap, (DOMAIN w.objs) \ Cancelled(w))
         IN [w EXCEPT !.last_heap_compact = clk,
                      !.heap = heapify(w.objs, alive)]

\* Work.current_task_id
current_task_id(w) == w.current_tid

\* self._tasks.get(task_id or self.current_task_id()): a Task reference, 0 for None
tasks_get(w, key) == IF key \in Registered(w) THEN w.tasks[key] ELSE 0
lookup(w, task_id) ==
    tasks_get(w, IF task_id # 0 THEN task_id ELSE current_task_id(w))

\* Work.status: the fields reported are those of the Task found
status(w, task_id) ==
    LET t == lookup(w, task_id)
    IN [w |-> w, ret |-> IF t = 0 THEN RNone ELSE [kind |-> "status", val |-> t]]

\* Work.send
send(w, pkg, task_id) ==
    LET p == as_tuple(pkg)
        t == lookup(w, task_id)
    IN IF t = 0 THEN [w |-> w, ret |-> RBool(FALSE)]
       ELSE IF p # <<>> THEN [w |-> [w EXCEPT !.objs[t].params = p], ret |-> RBool(TRUE)]
       ELSE [w |-> w, ret |-> RBool(FALSE)]

\* the for loop of Work.trigger_event over the waitlist lst, from position i
\* fault model: a wake-up loop that leaves the waiters' params as they were
RECURSIVE trigger_loop_keep_params(_, _, _, _, _, _)
trigger_loop_keep_params(w, lst, i, p, clk, n) ==
    IF i > Len(lst) THEN [w |-> w, n |-> n]
    ELSE LET t == lst[i]
             o == w.objs[t]
         IN IF o.cancelled \/ o.event_triggered
            THEN trigger_loop_keep_params(w, lst, i + 1, p, clk, n)
            ELSE LET o1 == [o EXCEPT !.event_triggered = TRUE, !.next_run = clk]
                     objs1 == [w.objs EXCEPT ![t] = o1]
                     h1 == heappush(objs1, w.heap, t)
                     objs2 == [objs1 EXCEPT ![t].flag = IF o1.repeat <= 0 THEN NoFlag ELSE @]
                 IN trigger_loop_keep_params([w EXCEPT !.objs = objs2, !.heap = h1],
                                             lst, i + 1, p, clk, n + 1)

RECURSIVE trigger_loop(_, _, _, _, _, _)
trigger_loop(w, lst, i, p, clk, n) ==
    IF i > Len(lst) THEN [w |-> w, n |-> n]
    ELSE LET t == lst[i]
             o == w.objs[t]
         IN IF o.cancelled \/ o.event_triggered
            THEN trigger_loop(w, lst, i + 1, p, clk, n)
            ELSE LET o1 == [o EXCEPT !.event_triggered = TRUE,
                                     !.params = IF p # <<>> THEN p ELSE @,
                                     !.next_run = clk]
                     objs1 == [w.objs EXCEPT ![t] = o1]
                     h1 == heappush(objs1, w.heap, t)
                     objs2 == [objs1 EXCEPT ![t].flag = IF o1.repeat <= 0 THEN NoFlag ELSE @]
                 IN trigger_loop([w EXCEPT !.objs = objs2, !.heap = h1],
                                 lst, i + 1, p, clk, n + 1)

\* Work.trigger_event
trigger_event(w, clk, flag, pkg) ==
    IF flag = NoFlag \/ flag \notin DOMAIN w.flags THEN [w |-> w, ret |-> RInt(0)]
    ELSE LET r == trigger_loop(w, w.flags[flag], 1, as_tuple(pkg), clk, 0)
             still == {t \in DOMAIN r.w.objs : r.w.objs[t].flag = flag}
             left == Filter(r.w.flags[flag], still)
         IN [w |-> [r.w EXCEPT !.flags = IF left = <<>> THEN Drop(@, flag)
                                         ELSE Put(@, flag, left)],
             ret |-> RInt(r.n)]

\* self._flags.setdefault(flag, []).append(task)
flags_append(fl, flag, t) ==
    Put(fl, flag, Append(IF flag \in DOMAIN fl THEN fl[flag] ELSE <<>>, t))

\* Work.await_event
await_event(w, flag, task_id) ==
    LET t == lookup(w, task_id)
    IN IF flag = NoFlag \/ t = 0 THEN [w |-> w, ret |-> RBool(FALSE)]
       ELSE [w |-> [w EXCEPT !.objs[t].flag = flag,
                             !.objs[t].event_triggered = FALSE,
                             !.objs[t].repeat = 1,
                             !.flags = flags_append(@, flag, t)],
             ret |-> RBool(TRUE)]

\* Work.set_repeat
set_repeat(w, repeat_interval, task_id) ==
    LET t == lookup(w, task_id)
    IN IF repeat_interval < 0 \/ t = 0 THEN [w |-> w, ret |-> RBool(FALSE)]
       ELSE [w |-> [w EXCEPT !.objs[t].repeat = repeat_interval], ret |-> RBool(TRUE)]

\* the admission test of Work._schedule_task
\* fault model: a cap that counts only the tasks that are not cancelled
at_capacity_live(w) ==
    Cardinality({tid \in Registered(w) : ~w.objs[w.tasks[tid]].cancelled}) >= w.max_tasks

at_capacity(w) == Cardinality(Registered(w)) >= w.max_tasks

\* Work._schedule_task (job callable, delay and repeat valid integers)
schedule_task(w, clk, params, delay, repeat, wait_for, task_id) ==
    IF at_capacity(w) THEN [w |-> w, ret |-> RNone]
    ELSE LET given == IF task_id # 0 /\ task_id \notin Registered(w) THEN task_id ELSE 0
             g == IF given # 0
                  THEN [ok |-> TRUE, id |-> given, counter |-> w.task_counter]
                  ELSE generate_task_id(w)
             t == Len(w.objs) + 1
             task == Task(as_tuple(params), delay, repeat, wait_for, g.id, clk)
             objs1 == Append(w.objs, task)
         IN IF ~g.ok
            THEN [w |-> [w EXCEPT !.task_counter = g.counter], ret |-> RRaise]
            ELSE [w |-> [w EXCEPT !.task_counter = g.counter,
                                  !.objs = objs1,
                                  !.tasks = Put(@, g.id, t),
                                  !.flags = IF wait_for # NoFlag
                                            THEN flags_append(@, wait_for, t) ELSE @,
                                  !.heap = IF wait_for # NoFlag
                                           THEN @ ELSE heappush(objs1, @, t)],
                  ret |-> RInt(g.id)]

\* Work.repeat
repeat(w, clk, params, at, every, task_id) ==
    IF every <= 0 THEN [w |-> w, ret |-> RNone]
    ELSE schedule_task(w, clk, params, at, every, NoFlag, task_id)

\* Work.at
at(w, clk, params, delay, task_id) ==
    schedule_task(w, clk, params, delay, 0, NoFlag, task_id)

\* Work.do
do(w, clk, params, task_id) ==
    schedule_task(w, clk, params, 0, 0, NoFlag, task_id)

\* Work.on; `repeat` is a bool, which _schedule_task turns into 1 or 0
on(w, clk, params, when, delay, rep, task_id) ==
    IF when = NoFlag THEN [w |-> w, ret |-> RNone]
    ELSE schedule_task(w, clk, params, delay, IF rep THEN 1 ELSE 0, when, task_id)

\* Work.cancel: the registry is indexed with task_id itself
\* fault model: cancel() that reports success and marks nothing
cancel_unmarked(w, task_id) == [w |-> w, ret |-> RBool(tasks_get(w, task_id) # 0)]

cancel(w, task_id) ==
    LET t == tasks_get(w, task_id)
        f == w.objs[t].flag
        w1 == [w EXCEPT !.objs[t].cancelled = TRUE]
        l1 == list_remove(w.flags[f], t)
    IN IF t = 0 THEN [w |-> w, ret |-> RBool(FALSE)]
       ELSE IF f # NoFlag /\ f \in DOMAIN w.flags /\ t \in Range(w.flags[f])
       THEN [w |-> [w1 EXCEPT !.flags = IF l1 = <<>> THEN Drop(@, f) ELSE Put(@, f, l1)],
             ret |-> RBool(TRUE)]
       ELSE [w |-> w1, ret |-> RBool(TRUE)]

\* Work.abort_current_task
abort_current_task(w) ==
    IF current_task_id(w) # 0 THEN cancel(w, current_task_id(w))
    ELSE [w |-> w, ret |-> RBool(FALSE)]

\* Work.stop
stop(w) ==
    [w |-> [w EXCEPT !.running = FALSE, !.heap = <<>>, !.tasks = EmptyMap,
                     !.flags = EmptyMap],
     ret |-> RNone]

\* Work.task_count, Work.pending_count
task_count(w) == Cardinality(Registered(w))
pending_count(w) == Len(w.heap)

----------------------------------------------------------------------------
\* Work.start: one iteration of the while loop, cut at the call of task.job

\* _cleanup_lazy() then _compact_heap(), the first two statements of an iteration
maintenance(w, clk) == compact_heap(cleanup_lazy(w, clk), clk)

\* fault model: a loop that discards cancelled tasks only, not unfired listeners
stale_cancelled_only(w, t) == w.objs[t].cancelled

\* fault model: a loop that discards unfired listeners only, not cancelled tasks
stale_unless_cancelled(w, t) == w.objs[t].flag # NoFlag /\ ~w.objs[t].event_triggered

\* `task.cancelled or (task.flag and not task.event_triggered)`
stale(w, t) ==
    w.objs[t].cancelled \/ (w.objs[t].flag # NoFlag /\ ~w.objs[t].event_triggered)

\* ticks_diff(task.next_run, now)
wait_time(w, t, clk) == w.objs[t].next_run - clk

\* `if a < b: a else b`
min(a, b) == IF a < b THEN a ELSE b

\* the statements after the job has returned or raised
after_job(w, t, nw) ==
    LET o == w.objs[t]
        again == o.repeat > 0 /\ ~o.cancelled
        objs1 == IF again THEN [w.objs EXCEPT ![t].next_run = nw + o.repeat] ELSE w.objs
        tasks1 == IF again THEN w.tasks ELSE Drop(w.tasks, o.task_id)
        w1 == [w EXCEPT !.objs = objs1,
                        !.heap = IF again THEN heappush(objs1, @, t) ELSE @,
                        !.tasks = tasks1,
                        !.running = IF ~again /\ DOMAIN tasks1 = {} THEN FALSE ELSE @]
        f == o.flag
        drop == o.repeat <= 0 \/ o.cancelled
        listed == f \in DOMAIN w1.flags /\ t \in Range(w1.flags[f])
        l1 == list_remove(w1.flags[f], t)
    IN IF f = NoFlag THEN w1
       ELSE [w1 EXCEPT !.objs[t].event_triggered = FALSE,
                       !.objs[t].flag = IF drop THEN NoFlag ELSE @,
                       !.flags = IF drop /\ listed
                                 THEN (IF l1 = <<>> THEN Drop(@, f) ELSE Put(@, f, l1))
                                 ELSE @]

----------------------------------------------------------------------------
\* The state machine.

\* A Task no longer referenced from the registry, the heap, a waitlist or the
\* running iteration is garbage: Python frees it, and its slot holds Freed.
Freed ==
    [params |-> <<>>, delay |-> 0, repeat |-> 0, flag |-> NoFlag, task_id |-> 0,
     cancelled |-> FALSE, event_triggered |-> FALSE, next_run |-> 0]

Referenced(w, running_task) ==
    {w.tasks[k] : k \in DOMAIN w.tasks} \cup Range(w.heap) \cup {running_task}
        \cup UNION {Range(w.flags[k]) : k \in DOMAIN w.flags}

collect(w, running_task) ==
    [w EXCEPT !.objs = [t \in DOMAIN @ |->
                           IF t \in Referenced(w, running_task) THEN @[t] ELSE Freed]]

Later(n) == {t \in Instants : t >= clock + n}

NoCall == [op |-> "none", kind |-> "none", val |-> 0]
Returned(op, r) == [op |-> op, kind |-> r.kind, val |-> r.val]

NoBatch == [at |-> 0, tasks |-> <<>>]

\* the program has created no Ring
NoRing ==
    /\ ring = [size |-> 0, buffer |-> <<>>, head |-> 0, tail |-> 0, count |-> 0]
    /\ twin = ring
    /\ res = [op |-> "none", kind |-> "none", id |-> 0, data |-> <<>>]
    /\ res2 = res
    /\ sent = <<>>

\* the state after Work(max_tasks) has been constructed at time 0, in a program
\* that makes at most `budget` public calls
InitWith(max_tasks, budget) ==
    /\ work = Work(max_tasks, 0)
    /\ clock = 0
    /\ pc = "idle"
    /\ now = 0
    /\ cur = 0
    /\ args = <<>>
    /\ ret = NoCall
    /\ calls = budget
    /\ batch = NoBatch
    /\ NoRing

Init == InitWith(MaxTasks, MaxCalls)

\* a public method `op` called by the program around start() or by the running job
Call(op, r, b) ==
    /\ pc \in {"idle", "job"}
    /\ calls > 0
    /\ calls' = calls - 1
    /\ work' = collect(r.w, cur)
    /\ ret' = Returned(op, r.ret)
    /\ batch' = b
    /\ UNCHANGED <<clock, pc, now, cur, args, rvars>>

\* task_id arguments: 0 and the ids in the registry
TaskIds == {0} \cup Registered(work)

\* the waiters a trigger_event(flag) call wakes, in waitlist order, each once
RECURSIVE Woken(_, _, _)
Woken(w, lst, seen) ==
    IF lst = <<>> THEN <<>>
    ELSE LET t == Head(lst)
             hit == t \notin seen /\ ~w.objs[t].cancelled /\ ~w.objs[t].event_triggered
         IN (IF hit THEN <<t>> ELSE <<>>) \o Woken(w, Tail(lst), seen \cup {t})

WokenBatch(f) ==
    LET ws == IF f \in DOMAIN work.flags THEN Woken(work, work.flags[f], {}) ELSE <<>>
    IN IF ws = <<>> THEN batch ELSE [at |-> clock, tasks |-> ws]

\* The public methods, each with the sets its arguments are drawn from.
CallDo(T) == \E tid \in T : Call("do", do(work, clock, Tup(<<>>), tid), batch)
CallAt(D, T) == \E d \in D, tid \in T : Call("at", at(work, clock, Tup(<<>>), d, tid), batch)
CallRepeat(D, E, T) ==
    \E d \in D, e \in E, tid \in T :
        Call("repeat", repeat(work, clock, Tup(<<>>), d, e, tid), batch)
CallOn(F, D, R, T) ==
    \E f \in F, d \in D, rep \in R, tid \in T :
        Call("on", on(work, clock, Tup(<<>>), f, d, rep, tid), batch)
CallStatus(I) == \E tid \in I : Call("status", status(work, tid), batch)
CallSend(P, I) == \E p \in P, tid \in I : Call("send", send(work, p, tid), batch)
CallTrigger(F, P) ==
    \E f \in F, p \in P :
        Call("trigger_event", trigger_event(work, clock, f, p), WokenBatch(f))
CallAwait(F, I) == \E f \in F, tid \in I : Call("await_event", await_event(work, f, tid), batch)
CallSetRepeat(N, I) == \E i \in N, tid \in I : Call("set_repeat", set_repeat(work, i, tid), batch)
CallCancel(I) == \E tid \in I : Call("cancel", cancel(work, tid), batch)
CallAbort == Call("abort_current_task", abort_current_task(work), batch)
CallStop == Call("stop", stop(work), batch)

\* time passes while the job runs
Tick ==
    /\ pc = "job"
    /\ clock' \in Later(1)
    /\ UNCHANGED <<work, pc, now, cur, args, ret, calls, batch, rvars>>

\* start(): `self._running = True`
Start ==
    /\ pc = "idle"
    /\ work' = [work EXCEPT !.running = TRUE]
    /\ pc' = "loop"
    /\ UNCHANGED <<clock, now, cur, args, ret, calls, batch, rvars>>

\* the while test fails: start() returns
Return ==
    /\ pc = "loop"
    /\ ~work.running
    /\ pc' = "idle"
    /\ UNCHANGED <<work, clock, now, cur, args, ret, calls, batch, rvars>>

\* `if not self._heap: sleep_ms(100); continue`
LoopEmpty ==
    LET w1 == maintenance(work, clock)
    IN /\ pc = "loop" /\ work.running
       /\ w1.heap = <<>>
       /\ work' = collect(w1, 0)
       /\ clock' \in Later(SLEEP_CAP)
       /\ UNCHANGED <<pc, now, cur, args, ret, calls, batch, rvars>>

\* the top of the heap is cancelled or a stale entry: pop it and continue
LoopDiscard ==
    LET w1 == maintenance(work, clock)
    IN /\ pc = "loop" /\ work.running
       /\ w1.heap # <<>>
       /\ stale(w1, w1.heap[1])
       /\ work' = collect([w1 EXCEPT !.heap = heappop(w1.objs, @)], 0)
       /\ UNCHANGED <<clock, pc, now, cur, args, ret, calls, batch, rvars>>

\* the top of the heap is not due: sleep_ms(min(wait_time, 100)) and continue
LoopWait ==
    LET w1 == maintenance(work, clock)
    IN /\ pc = "loop" /\ work.running
       /\ w1.heap # <<>>
       /\ ~stale(w1, w1.heap[1])
       /\ wait_time(w1, w1.heap[1], clock) > 0
       /\ work' = collect(w1, 0)
       /\ clock' \in Later(min(wait_time(w1, w1.heap[1], clock), SLEEP_CAP))
       /\ UNCHANGED <<pc, now, cur, args, ret, calls, batch, rvars>>

\* the top of the heap is due: pop it and call its job
LoopDispatch ==
    LET w1 == maintenance(work, clock)
        t == w1.heap[1]
    IN /\ pc = "loop" /\ work.running
       /\ w1.heap # <<>>
       /\ ~stale(w1, t)
       /\ wait_time(w1, t, clock) <= 0
       /\ work' = collect([w1 EXCEPT !.heap = heappop(w1.objs, @),
                                     !.current_tid = w1.objs[t].task_id], t)
       /\ now' = clock
       /\ cur' = t
       /\ args' = w1.objs[t].params
       /\ pc' = "job"
       /\ batch' = LET rest == SelectSeq(batch.tasks, LAMBDA u : u # t)
                   IN IF rest = <<>> THEN NoBatch ELSE [batch EXCEPT !.tasks = rest]
       /\ UNCHANGED <<clock, ret, calls, rvars>>

\* the job returns (or raises, which start() only reports): reschedule or retire
JobReturn ==
    LET w1 == after_job(work, cur, now)
    IN /\ pc = "job"
       /\ work' = collect(w1, 0)
       /\ pc' = "loop"
       /\ now' = 0
       /\ cur' = 0
       /\ args' = <<>>
       /\ UNCHANGED <<clock, ret, calls, batch, rvars>>

\* the main loop of start()
Loop == LoopEmpty \/ LoopDiscard \/ LoopWait \/ LoopDispatch \/ JobReturn

----------------------------------------------------------------------------
\* Specifications: each draws the program's calls from one family of scenarios.

\* cancellation: timers and listeners, re-armed, woken, cancelled
NextCancel ==
    \/ CallOn({"f"}, {0}, BOOLEAN, {0})
    \/ CallRepeat({0}, {1}, {0})
    \/ CallAwait({"g"}, TaskIds)
    \/ CallTrigger(Flags, {Tup(<<1>>)})
    \/ CallSend({Tup(<<1>>)}, TaskIds)
    \/ CallSetRepeat({0}, TaskIds)
    \/ CallCancel(TaskIds)
    \/ Tick \/ Start \/ Return \/ Loop

SpecCancel == InitWith(MaxTasks + 1, MaxCalls) /\ [][NextCancel]_vars

\* admission: every scheduling call, cancel, and the loop that reaps
NextCap ==
    \/ CallDo(TaskIdArgs)
    \/ CallAt(Delays, {0})
    \/ CallRepeat({0}, Everys, {0})
    \/ CallOn({"f"}, {0}, BOOLEAN, {0})
    \/ CallCancel(TaskIds)
    \/ Tick \/ Start \/ Return \/ Loop

SpecCap == Init /\ [][NextCap]_vars

\* event delivery: listeners with and without delay, woken with and without a
\* package, next to a timer
NextWake ==
    \/ CallOn({"f"}, Delays, BOOLEAN, {0})
    \/ CallAt({2}, {0})
    \/ CallTrigger({"f"}, Pkgs)
    \/ CallSend({Tup(<<2>>)}, TaskIds)
    \/ Tick \/ Start \/ Return \/ Loop

SpecWake == InitWith(MaxTasks + 1, MaxCalls) /\ [][NextWake]_vars

\* one-shot tasks scheduled and cancelled before start(); the jobs call nothing
SetupDo == pc = "idle" /\ CallDo({0})
SetupAt == pc = "idle" /\ CallAt(Delays, {0})
SetupCancel == pc = "idle" /\ CallCancel(Registered(work))

NextOneShot ==
    \/ SetupDo \/ SetupAt \/ SetupCancel
    \/ Tick \/ Start \/ Return \/ Loop

SpecOneShot == InitWith(MaxTasks + 1, MaxCalls + 1) /\ [][NextOneShot]_vars

\* dispatch order: room for four tasks, timers and listeners, five calls
NextOrder ==
    \/ CallDo({0})
    \/ CallAt({2}, {0})
    \/ CallOn({"f"}, {0}, BOOLEAN, {0})
    \/ CallTrigger({"f"}, {Tup(<<>>)})
    \/ Tick \/ Start \/ Return \/ Loop

SpecOrder == InitWith(MaxTasks + 3, MaxCalls + 2) /\ [][NextOrder]_vars

\* calls made by a running job on itself, stop() among them
NextStop ==
    \/ CallDo({0})
    \/ CallRepeat({0}, Everys, {0})
    \/ CallOn({"f"}, {0}, BOOLEAN, {0})
    \/ CallStatus(TaskIds)
    \/ CallSend({Tup(<<1>>)}, TaskIds)
    \/ CallAwait({"f"}, TaskIds)
    \/ CallSetRepeat(Intervals, TaskIds)
    \/ CallCancel(TaskIds)
    \/ CallAbort
    \/ CallStop
    \/ Tick \/ Start \/ Return \/ Loop

SpecStop == InitWith(MaxTasks + 1, MaxCalls + 1) /\ [][NextStop]_vars

----------------------------------------------------------------------------
\* Notions shared by the properties.

\* this step is the main loop calling the job of task t
Dispatches(t) == pc = "loop" /\ pc' = "job" /\ cur' = t

\* the scheduler as the dispatching iteration sees it, after its maintenance calls
Seen == maintenance(work, clock)

\* a heap entry the main loop would run rather than discard
Dispatchable(w, t) == t \in Range(w.heap) /\ ~stale(w, t)

Live(w, running_task) == (DOMAIN w.objs) \cap Referenced(w, running_task)

Waitlisted(w, t) == \E f \in DOMAIN w.flags : t \in Range(w.flags[f])

\* position of the first occurrence of t in a sequence that holds it
Pos(seq, t) == First(seq, t)

----------------------------------------------------------------------------
\* C1: once cancel(id) has returned True for a task, the main loop never calls
\* that task's job again: no step dispatches a cancelled task, a task stays
\* cancelled for as long as anything refers to it, and a task nothing refers to
\* is never referred to again.
C1_CancelledNeverRuns ==
    [][\A t \in DOMAIN work.objs :
          /\ work.objs[t].cancelled =>
                /\ ~Dispatches(t)
                /\ (work'.objs[t].cancelled \/ t \notin Live(work', cur'))
          /\ t \notin Live(work, cur) => t \notin Live(work', cur')]_vars

\* a cancelled task is on top of the heap, its next_run has passed, the loop runs
C1_Witness ==
    /\ pc = "loop" /\ work.running /\ work.heap # <<>>
    /\ work.objs[work.heap[1]].cancelled
    /\ work.objs[work.heap[1]].next_run <= clock
    /\ ret.op = "cancel" /\ ret.val = 1

\* C2: with only one-shot tasks, some cancelled before start(), no cancelled job
\* runs, and once the last non-cancelled job has run start() returns: whenever
\* the loop is about to go round again after a job has run, a non-cancelled
\* task is still registered.
C2_LoopExitsAfterLastJob ==
    /\ pc = "job" => ~work.objs[cur].cancelled
    /\ (pc = "loop" /\ work.running /\ work.current_tid # 0) =>
          \E tid \in Registered(work) : ~work.objs[work.tasks[tid]].cancelled

\* C3: the registry never holds more than max_tasks tasks, and while it holds
\* max_tasks (cancelled ones included) do, at, repeat and on return None and
\* change nothing.
C3_NeverOverCapacity ==
    /\ task_count(work) <= work.max_tasks
    /\ task_count(work) = work.max_tasks =>
          \A tid \in TaskIdArgs, d \in Delays, e \in Everys, f \in Flags, rep \in BOOLEAN :
              /\ do(work, clock, Tup(<<>>), tid) = [w |-> work, ret |-> RNone]
              /\ at(work, clock, Tup(<<>>), d, tid) = [w |-> work, ret |-> RNone]
              /\ repeat(work, clock, Tup(<<>>), d, e, tid) = [w |-> work, ret |-> RNone]
              /\ on(work, clock, Tup(<<>>), f, d, rep, tid) = [w |-> work, ret |-> RNone]

\* the registry is full, one of its tasks is cancelled, and a do() was just refused
C3_Witness ==
    /\ task_count(work) = work.max_tasks
    /\ \E tid \in Registered(work) : work.objs[work.tasks[tid]].cancelled
    /\ ret = Returned("do", RNone)

\* C4: trigger_event(f, pkg) on a waitlist of n distinct tasks, none cancelled
\* and none already triggered, returns n and leaves each of them in the heap,
\* due and not stale, with params = pkg when pkg is non-empty; only send and
\* trigger_event rewrite a task's params, and a job is called with its task's
\* params.
C4_TriggerWakesAll ==
    /\ [](\A f \in DOMAIN work.flags, p \in Pkgs :
             LET ws == Range(work.flags[f])
                 r == trigger_event(work, clock, f, p)
             IN (\A t \in ws : ~work.objs[t].cancelled /\ ~work.objs[t].event_triggered) =>
                   /\ r.ret = RInt(Cardinality(ws))
                   /\ \A t \in ws :
                         /\ Dispatchable(r.w, t)
                         /\ wait_time(r.w, t, clock) <= 0
                         /\ (as_tuple(p) # <<>> => r.w.objs[t].params = as_tuple(p)))
    /\ [][/\ \A t \in DOMAIN work.objs : Dispatches(t) => args' = work.objs[t].params
          /\ (\E t \in Live(work', cur') \cap DOMAIN work.objs :
                 work'.objs[t].params # work.objs[t].params)
                => calls' # calls /\ ret'.op \in {"send", "trigger_event"}]_vars

\* on, on, trigger_event(f, (1,)) returned 2, and a woken job now runs with (1,)
C4_Witness ==
    /\ pc = "job" /\ args = <<1>>
    /\ ret = Returned("trigger_event", RInt(2))

\* C5: the tasks woken by one trigger_event call are dispatched in the order of
\* the waitlist: when one of them is dispatched, none that was enrolled before
\* it is still waiting in the heap.
C5_WokenInEnrollmentOrder ==
    [][\A t \in Range(batch.tasks) :
          Dispatches(t) =>
             \A i \in 1..(Pos(batch.tasks, t) - 1) : ~Dispatchable(Seen, batch.tasks[i])]_vars

\* C6: when the main loop dispatches a task, no other dispatchable heap resident
\* has a strictly smaller next_run.
C6_EarliestFirst ==
    [][\A t \in DOMAIN work.objs :
          Dispatches(t) =>
             \A u \in DOMAIN work.objs :
                 Dispatchable(Seen, u) => Seen.objs[u].next_run >= Seen.objs[t].next_run]_vars

\* C7: inside a running job, status, send, await_event, set_repeat and cancel
\* called with task_id 0 return and do what they do when called with the id of
\* the running task.
C7_ZeroMeansSelf ==
    pc = "job" =>
        LET me == work.objs[cur].task_id
        IN /\ status(work, 0) = status(work, me)
           /\ \A p \in Pkgs : send(work, p, 0) = send(work, p, me)
           /\ \A f \in Flags : await_event(work, f, 0) = await_event(work, f, me)
           /\ \A i \in Intervals : set_repeat(work, i, 0) = set_repeat(work, i, me)
           /\ cancel(work, 0) = cancel(work, me)

\* C8: right after cancel(id) has returned True the task is in no flag waitlist,
\* no waitlist is empty, and a second cancel(id) would change nothing.
C8_CancelLeavesNoWaitlist ==
    [][\A tid \in Registered(work) :
          Call("cancel", cancel(work, tid), batch) =>
             /\ ~Waitlisted(work', work.tasks[tid])
             /\ \A f \in DOMAIN work'.flags : work'.flags[f] # <<>>
             /\ cancel(work', tid).w = work']_vars

\* C9: once stop() was the last call made and start() has returned (or was not
\* running), the registry, the heap and the flag waitlists are empty.
C9_StopClearsAll ==
    (pc = "idle" /\ ret.op = "stop") =>
        /\ task_count(work) = 0
        /\ pending_count(work) = 0
        /\ work.flags = EmptyMap

\* C10: a listener registered with on(..., at=d), d > 0, and woken by a
\* trigger_event at time t is not dispatched before t + d.
C10_DelayAfterEvent ==
    [][\A t \in Range(batch.tasks) :
          (Dispatches(t) /\ work.objs[t].delay > 0) =>
              clock >= batch.at + work.objs[t].delay]_vars

\* this step is the job of the running task returning to the main loop
Completes(t) == pc = "job" /\ pc' = "loop" /\ cur = t

\* C11: when a run of a non-cancelled task with repeat = k > 0 completes at
\* clock time c, the task goes back to the heap with a next_run of at least
\* c + k, so that the loop, which dispatches a task only once its next_run has
\* passed, does not dispatch it before c + k.
C11_RepeatAfterCompletion ==
    [][\A t \in DOMAIN work.objs :
          (Completes(t) /\ work.objs[t].repeat > 0 /\ ~work.objs[t].cancelled) =>
              /\ t \in Range(work'.heap)
              /\ work'.objs[t].next_run >= clock + work.objs[t].repeat]_vars

----------------------------------------------------------------------------
\* Jobs that raise.

\* Work.print: hands the text to micropython.schedule (or to print); no field of
\* the scheduler is read for writing
print_sink(w) == w

\* fault model: a loop without the inner handler, where the exception reaches the
\* outer `except Exception` and the iteration ends there
job_escapes(w, t, nw) == print_sink(w)

\* `except Exception as e: self.print(...)`, then the rest of the iteration
job_caught(w, t, nw) == after_job(print_sink(w), t, nw)

\* the job raises an Exception: control is in the handler around the call
JobRaise ==
    /\ pc = "job"
    /\ pc' = "except"
    /\ UNCHANGED <<work, clock, now, cur, args, ret, calls, batch, rvars>>

\* the handler reports the fault and the iteration goes on as after a return
JobCaught ==
    /\ pc = "except"
    /\ work' = collect(job_caught(work, cur, now), 0)
    /\ pc' = "loop"
    /\ now' = 0
    /\ cur' = 0
    /\ args' = <<>>
    /\ UNCHANGED <<clock, ret, calls, batch, rvars>>

\* faults: timers and listeners whose jobs may raise, may cancel and may stop()
NextFault ==
    \/ CallDo({0})
    \/ CallRepeat({0}, Everys, {0})
    \/ CallOn({"f"}, {0}, BOOLEAN, {0})
    \/ CallTrigger({"f"}, {Tup(<<>>)})
    \/ CallCancel(TaskIds)
    \/ CallStop
    \/ Tick \/ Start \/ Return \/ Loop \/ JobRaise \/ JobCaught

SpecFault == InitWith(MaxTasks + 1, MaxCalls) /\ [][NextFault]_vars

\* C12: when a job has raised, the iteration ends in the state it would have
\* ended in had the job returned: the loop keeps running unless the registry
\* emptied or stop() was called, a repeating non-cancelled task is back in the
\* heap with next_run = now + repeat, any other task is out of the registry, a
\* listener's event_triggered is cleared, and no other task is changed.
C12_RaiseLikeReturn ==
    pc = "except" =>
        LET o == work.objs[cur]
            r == job_caught(work, cur, now)
        IN /\ r = after_job(work, cur, now)
           /\ r.running \/ ~work.running \/ Registered(r) = {}
           /\ (o.repeat > 0 /\ ~o.cancelled) =>
                 /\ cur \in Range(r.heap)
                 /\ r.objs[cur].next_run = now + o.repeat
                 /\ r.tasks = work.tasks
           /\ (o.repeat <= 0 \/ o.cancelled) => o.task_id \notin Registered(r)
           /\ o.flag # NoFlag => ~r.objs[cur].event_triggered
           /\ \A u \in DOMAIN work.objs : u # cur => r.objs[u] = work.objs[u]

\* the job of a repeating, non-cancelled task has raised while another task is
\* registered
C12_Witness ==
    /\ pc = "except"
    /\ work.objs[cur].repeat > 0 /\ ~work.objs[cur].cancelled
    /\ \E tid \in Registered(work) : work.tasks[tid] # cur

----------------------------------------------------------------------------
\* Scheduling calls with arguments of any Python type.

\* Python values by type; a float n stands for n + 0.5
PyInt(n) == [type |-> "int", val |-> n]
PyBool(b) == [type |-> "bool", val |-> IF b THEN 1 ELSE 0]
PyFloat(n) == [type |-> "float", val |-> n]
PyNone == [type |-> "None", val |-> 0]

\* isinstance(v, int): a bool is an int
is_int(v) == v.type \in {"int", "bool"}

\* `v <= 0` on a number
le_zero(v) == IF v.type = "float" THEN v.val < 0 ELSE v.val <= 0

\* the job argument: a function, or None
Jobs == {"function", "None"}
callable(job) == job = "function"

PyDelays == {PyInt(0), PyInt(-1), PyFloat(1), PyNone}
PyEverys == {PyInt(2), PyInt(0), PyInt(-1), PyFloat(1)}
Whens == {"f", NoFlag}

\* fault model: a validation that looks at the job only
valid_job_only(job, delay, rpt) == callable(job)

\* the test of `if not (callable(job) and ... )` in _schedule_task; params is a
\* tuple by then
valid_schedule(job, delay, rpt) ==
    callable(job) /\ is_int(delay) /\ delay.val >= 0 /\ is_int(rpt)

\* Work._schedule_task from its first line: the cap, the validation, the rest
schedule_task_checked(w, clk, job, params, delay, rpt, wait_for, task_id) ==
    IF at_capacity(w) THEN [w |-> w, ret |-> RNone]
    ELSE IF ~valid_schedule(job, delay, rpt) THEN [w |-> print_sink(w), ret |-> RNone]
    ELSE schedule_task(w, clk, params, delay.val, rpt.val, wait_for, task_id)

\* Work.repeat, Work.at, Work.do, Work.on with a job and untyped numbers
repeat_checked(w, clk, job, params, delay, every, task_id) ==
    IF le_zero(every) THEN [w |-> print_sink(w), ret |-> RNone]
    ELSE schedule_task_checked(w, clk, job, params, delay, every, NoFlag, task_id)

at_checked(w, clk, job, params, delay, task_id) ==
    schedule_task_checked(w, clk, job, params, delay, PyInt(0), NoFlag, task_id)

do_checked(w, clk, job, params, task_id) ==
    schedule_task_checked(w, clk, job, params, PyInt(0), PyInt(0), NoFlag, task_id)

on_checked(w, clk, job, params, when, delay, rep, task_id) ==
    IF when = NoFlag THEN [w |-> print_sink(w), ret |-> RNone]
    ELSE schedule_task_checked(w, clk, job, params, delay, PyBool(rep), when, task_id)

CallDoChecked(J) ==
    \E job \in J : Call("do", do_checked(work, clock, job, Tup(<<>>), 0), batch)
CallAtChecked(J, D) ==
    \E job \in J, d \in D :
        Call("at", at_checked(work, clock, job, Tup(<<>>), d, 0), batch)
CallRepeatChecked(J, D, E) ==
    \E job \in J, d \in D, e \in E :
        Call("repeat", repeat_checked(work, clock, job, Tup(<<>>), d, e, 0), batch)
CallOnChecked(J, F, D, R) ==
    \E job \in J, f \in F, d \in D, rep \in R :
        Call("on", on_checked(work, clock, job, Tup(<<>>), f, d, rep, 0), batch)

\* validation: scheduling calls with good and bad arguments, around and inside jobs
NextValid ==
    \/ CallDoChecked(Jobs)
    \/ CallAtChecked(Jobs, {PyInt(0), PyInt(-1)})
    \/ CallRepeatChecked({"function"}, {PyInt(0)}, PyEverys)
    \/ CallOnChecked({"function"}, Whens, {PyInt(0), PyFloat(1)}, {FALSE})
    \/ CallCancel(TaskIds)
    \/ Start \/ Return \/ Loop

SpecValid == InitWith(MaxTasks + 1, MaxCalls) /\ [][NextValid]_vars

\* what the claim calls a bad delay: negative, or not an integer
BadDelay(d) == d.type # "int" \/ d.val < 0

\* C13: in every state, a scheduling call with a job that is not callable, with
\* a delay that is negative or not an integer, repeat() with every <= 0 and on()
\* with when None return None and leave the scheduler (registry, heap, flag
\* waitlists, id counter) as it was.
C13_RejectedChangesNothing ==
    LET same == [w |-> work, ret |-> RNone]
        p == Tup(<<>>)
        bad(job, d) == ~callable(job) \/ BadDelay(d)
    IN \A job \in Jobs, tid \in TaskIdArgs :
          /\ ~callable(job) => do_checked(work, clock, job, p, tid) = same
          /\ \A d \in PyDelays :
                /\ bad(job, d) => at_checked(work, clock, job, p, d, tid) = same
                /\ \A e \in PyEverys :
                      (bad(job, d) \/ le_zero(e)) =>
                          repeat_checked(work, clock, job, p, d, e, tid) = same
                /\ \A f \in Whens, rep \in BOOLEAN :
                      (bad(job, d) \/ f = NoFlag) =>
                          on_checked(work, clock, job, p, f, d, rep, tid) = same

\* at() has just returned None while the registry holds a task and has room for
\* another: the call was turned down by the validation, not by the cap
C13_Witness ==
    /\ ret = Returned("at", RNone)
    /\ task_count(work) > 0 /\ ~at_capacity(work)
    /\ work.heap # <<>>

----------------------------------------------------------------------------
\* ringbuffer.py: class Ring.  Pointers count from 0 as in the code; byte k of
\* the arena is buffer[k + 1].

\* the smallest size Ring(size) accepts
RING_MIN == 8
\* msg_id and the payload length are stored in two bytes
U16_MAX == 65535
BYTE == 256
HEADER == 4

\* sizes from RING_MIN to RING_MIN + MaxSlack are modelled
MaxSlack == 1
\* payloads have 0..MaxLen bytes
MaxLen == 1

\* fault model: the two bytes in little-endian order
to_bytes_little(n) == <<n % BYTE, n \div BYTE>>

\* n.to_bytes(2, 'big') and int.from_bytes(b, 'big')
to_bytes(n) == <<n \div BYTE, n % BYTE>>
from_bytes(b) == b[1] * BYTE + b[2]

\* results of the Ring methods: a (msg_id, payload) tuple, None, a list of ids,
\* or the exception raised
RTuple(id, data) == [kind |-> "tuple", id |-> id, data |-> data]
RSentinel == RTuple(0, <<>>)
RNothing == [kind |-> "None", id |-> 0, data |-> <<>>]
RList(ids) == [kind |-> "list", id |-> 0, data |-> ids]
RError(name) == [kind |-> name, id |-> 0, data |-> <<>>]

\* Ring.__init__, size an int >= RING_MIN
Ring(size) ==
    [size |-> size, buffer |-> [i \in 1..size |-> 0], head |-> 0, tail |-> 0, count |-> 0]

\* fault model: a pointer that passes the end of the arena restarts at 0
advance_restart(r, pointer, n) == IF pointer + n >= r.size THEN 0 ELSE pointer + n

\* Ring._advance
advance(r, pointer, n) == (pointer + n) % r.size

\* fault model: the header is not counted against the free space
space_left_loose(r) == r.size - r.count + HEADER

\* Ring._space_left
space_left(r) == r.size - r.count

\* `for b in packet: my.buffer[my.head] = b; my.head = my._advance(my.head, 1)`
RECURSIVE write_packet(_, _, _)
write_packet(r, packet, i) ==
    IF i > Len(packet) THEN r
    ELSE write_packet([r EXCEPT !.buffer[r.head + 1] = packet[i],
                                !.head = advance(r, r.head, 1)],
                      packet, i + 1)

\* Ring.put, msg_bytes a bytes object
put(r, msg_id, msg_bytes) ==
    LET msg_len == Len(msg_bytes)
        total_len == HEADER + msg_len
        packet == to_bytes(msg_id) \o to_bytes(msg_len) \o msg_bytes
    IN IF ~(1 <= msg_id /\ msg_id <= U16_MAX) THEN [r |-> r, res |-> RError("ValueError")]
       ELSE IF msg_len > U16_MAX THEN [r |-> r, res |-> RError("ValueError")]
       ELSE IF space_left(r) < total_len THEN [r |-> r, res |-> RError("MemoryError")]
       ELSE [r |-> [write_packet(r, packet, 1) EXCEPT !.count = @ + total_len],
             res |-> RNothing]

\* Ring.get_header: <<msg_id, 4 + msg_len>>
get_header(r, ptr) ==
    LET id_bytes == <<r.buffer[ptr + 1], r.buffer[advance(r, ptr, 1) + 1]>>
        size_bytes == <<r.buffer[advance(r, ptr, 2) + 1], r.buffer[advance(r, ptr, 3) + 1]>>
    IN <<from_bytes(id_bytes), HEADER + from_bytes(size_bytes)>>

\* the n bytes read from ptr on, with wraparound
read_bytes(r, ptr, n) == [i \in 1..n |-> r.buffer[advance(r, ptr, i - 1) + 1]]

\* bytes(result[4:])
payload_of(packet) == SubSeq(packet, HEADER + 1, Len(packet))

\* Ring.get
RECURSIVE get(_)
get(r) ==
    IF r.count < HEADER THEN [r |-> r, res |-> RSentinel]
    ELSE LET h == get_header(r, r.tail)
             msg_id == h[1]
             total_msg_len == h[2]
             r1 == [r EXCEPT !.tail = advance(r, r.tail, total_msg_len),
                             !.count = @ - total_msg_len]
         IN IF r.count < total_msg_len THEN [r |-> r, res |-> RSentinel]
            ELSE IF msg_id # 0
                 THEN [r |-> r1,
                       res |-> RTuple(msg_id, payload_of(read_bytes(r, r.tail, total_msg_len)))]
                 ELSE get(r1)

\* fault model: a peek that looks at the record at the tail only
peek_from_tail(r, scan_ptr, bytes_scanned) ==
    IF r.count < HEADER THEN RNothing
    ELSE LET h == get_header(r, scan_ptr)
         IN IF r.count < h[2] \/ h[1] = 0 THEN RNothing
            ELSE RTuple(h[1], payload_of(read_bytes(r, scan_ptr, h[2])))

\* Ring.peek
RECURSIVE peek_from(_, _, _)
peek_from(r, scan_ptr, bytes_scanned) ==
    IF ~(bytes_scanned < r.count) THEN RNothing
    ELSE IF r.count - bytes_scanned < HEADER THEN RNothing
    ELSE LET h == get_header(r, scan_ptr)
         IN IF r.count - bytes_scanned < h[2] THEN RNothing
            ELSE IF h[1] # 0
                 THEN RTuple(h[1], payload_of(read_bytes(r, scan_ptr, h[2])))
                 ELSE peek_from(r, advance(r, scan_ptr, h[2]), bytes_scanned + h[2])

peek(r) == [r |-> r, res |-> peek_from(r, r.tail, 0)]

\* fault model: one deleted record is skipped and only its header is given back
clean_up_header(r) ==
    IF r.count < HEADER THEN r
    ELSE LET h == get_header(r, r.tail)
         IN IF h[1] = 0
            THEN [r EXCEPT !.tail = advance(r, r.tail, h[2]), !.count = @ - HEADER]
            ELSE r

\* Ring.clean_up
RECURSIVE clean_up(_)
clean_up(r) ==
    IF r.count < HEADER THEN r
    ELSE LET h == get_header(r, r.tail)
         IN IF h[1] = 0
            THEN clean_up([r EXCEPT !.tail = advance(r, r.tail, h[2]), !.count = @ - h[2]])
            ELSE r

\* fault model: a pull that returns the record it finds and leaves it in place
RECURSIVE pull_from_keep(_, _, _, _)
pull_from_keep(r, wanted_id, scan_ptr, bytes_scanned) ==
    IF ~(bytes_scanned < r.count) THEN [r |-> r, res |-> RSentinel]
    ELSE IF r.count - bytes_scanned < HEADER THEN [r |-> r, res |-> RSentinel]
    ELSE LET h == get_header(r, scan_ptr)
         IN IF r.count - bytes_scanned < h[2] THEN [r |-> r, res |-> RSentinel]
            ELSE IF h[1] = wanted_id
                 THEN [r |-> r, res |-> RTuple(h[1], payload_of(read_bytes(r, scan_ptr, h[2])))]
                 ELSE pull_from_keep(r, wanted_id, advance(r, scan_ptr, h[2]),
                                     bytes_scanned + h[2])

\* Ring.pull: the scan from (scan_ptr, bytes_scanned) on
RECURSIVE pull_from(_, _, _, _)
pull_from(r, wanted_id, scan_ptr, bytes_scanned) ==
    IF ~(bytes_scanned < r.count) THEN [r |-> r, res |-> RSentinel]
    ELSE IF r.count - bytes_scanned < HEADER THEN [r |-> r, res |-> RSentinel]
    ELSE LET h == get_header(r, scan_ptr)
             msg_id == h[1]
             total_msg_len == h[2]
             marked == [r EXCEPT !.buffer[scan_ptr + 1] = 0,
                                 !.buffer[advance(r, scan_ptr, 1) + 1] = 0]
             msg == payload_of(read_bytes(marked, scan_ptr, total_msg_len))
         IN IF r.count - bytes_scanned < total_msg_len THEN [r |-> r, res |-> RSentinel]
            ELSE IF msg_id = wanted_id
                 THEN [r |-> IF scan_ptr = marked.tail
                             THEN [marked EXCEPT !.tail = advance(r, @, total_msg_len),
                                                 !.count = @ - total_msg_len]
                             ELSE clean_up(marked),
                       res |-> RTuple(msg_id, msg)]
                 ELSE pull_from(r, wanted_id, advance(r, scan_ptr, total_msg_len),
                                bytes_scanned + total_msg_len)

pull(r, wanted_id) ==
    IF ~(1 <= wanted_id /\ wanted_id <= U16_MAX) THEN [r |-> r, res |-> RSentinel]
    ELSE pull_from(r, wanted_id, r.tail, 0)

\* Ring.list
RECURSIVE list_from(_, _, _, _)
list_from(r, scan_ptr, bytes_scanned, ids) ==
    IF ~(bytes_scanned < r.count) THEN ids
    ELSE IF r.count - bytes_scanned < HEADER THEN ids
    ELSE LET h == get_header(r, scan_ptr)
         IN IF r.count - bytes_scanned < h[2] THEN ids
            ELSE list_from(r, advance(r, scan_ptr, h[2]), bytes_scanned + h[2],
                           IF h[1] # 0 THEN Append(ids, h[1]) ELSE ids)

list(r) == [r |-> r, res |-> RList(list_from(r, r.tail, 0, <<>>))]

\* Ring.clear
clear(r) == [r |-> [r EXCEPT !.head = 0, !.tail = 0, !.count = 0], res |-> RNothing]

\* Ring.__len__
len(r) == r.count

\* Ring.is_empty
is_empty(r) == r.count = 0

----------------------------------------------------------------------------
\* The ring as a state machine: each step is one call, made on `ring` and on
\* `twin` alike.

\* the variables of the scheduler
svars == <<work, clock, pc, now, cur, args, ret, calls, batch>>

\* inputs: ids inside and outside 1..65535, payloads of 0..MaxLen bytes
MsgIds == {1, BYTE}
BadIds == {0, U16_MAX + 1}
PayloadBytes == {0, BYTE - 1}
RECURSIVE BytesOfLen(_)
BytesOfLen(n) ==
    IF n = 0 THEN {<<>>}
    ELSE {Append(p, b) : p \in BytesOfLen(n - 1), b \in PayloadBytes}
Payloads == UNION {BytesOfLen(n) : n \in 0..MaxLen}
\* the payloads of 0..MaxLen bytes that repeat the byte b
Runs(b) == {[i \in 1..n |-> b] : n \in 0..MaxLen}
RingSizes == RING_MIN..(RING_MIN + MaxSlack)

\* the queue `q` without its oldest pair with the given id
RECURSIVE without_first(_, _)
without_first(q, id) ==
    IF q = <<>> THEN <<>>
    ELSE IF Head(q)[1] = id THEN Tail(q)
    ELSE <<Head(q)>> \o without_first(Tail(q), id)

\* a ring of the given size whose cursors have been moved by k put/get pairs
RECURSIVE Advanced(_, _)
Advanced(size, k) ==
    IF k = 0 THEN {Ring(size)}
    ELSE {get(put(r, id, p).r).r : r \in Advanced(size, k - 1), id \in MsgIds, p \in Payloads}

\* the program has created Ring(size) for a size of `sizes`; `twin` has gone
\* through `k` put/get pairs more; the scheduler is not used
InitRing(sizes, k) ==
    /\ work = Work(MaxTasks, 0) /\ clock = 0 /\ pc = "idle" /\ now = 0 /\ cur = 0
    /\ args = <<>> /\ ret = NoCall /\ calls = 0 /\ batch = NoBatch
    /\ ring \in {Ring(n) : n \in sizes}
    /\ twin \in Advanced(ring.size, k)
    /\ res = [op |-> "none", kind |-> "none", id |-> 0, data |-> <<>>]
    /\ res2 = res
    /\ sent = <<>>

\* a call `op` with result `a` on ring and `b` on twin
RingCall(op, a, b, q) ==
    /\ ring' = a.r
    /\ twin' = b.r
    /\ res' = [op |-> op, kind |-> a.res.kind, id |-> a.res.id, data |-> a.res.data]
    /\ res2' = [op |-> op, kind |-> b.res.kind, id |-> b.res.id, data |-> b.res.data]
    /\ sent' = q
    /\ UNCHANGED svars

RingPut(I, P) ==
    \E id \in I, p \in P :
        LET a == put(ring, id, p)
        IN RingCall("put", a, put(twin, id, p),
                    IF a.res = RNothing THEN Append(sent, <<id, p>>) ELSE sent)
RingGet ==
    RingCall("get", get(ring), get(twin), IF sent = <<>> THEN sent ELSE Tail(sent))
RingPeek == RingCall("peek", peek(ring), peek(twin), sent)
RingPull(I) ==
    \E id \in I : RingCall("pull", pull(ring, id), pull(twin, id), without_first(sent, id))
RingList == RingCall("list", list(ring), list(twin), sent)
RingClear == RingCall("clear", clear(ring), clear(twin), <<>>)

\* first in, first out: put and get only
NextFifo == RingPut(MsgIds, Payloads) \/ RingGet

SpecFifo == InitRing(RingSizes, 0) /\ [][NextFifo]_vars

\* this step is a call of `op` on the ring
RingDoes(op) == res'.op = op /\ rvars' # rvars

\* C14: in any interleaving of put and get, a get that returns a record returns
\* the oldest pair put and not yet returned, with its payload, and a get
\* returns the sentinel (0, b'') only when every pair put has been returned.
C14_Fifo ==
    [][RingDoes("get") =>
          IF sent = <<>> THEN res' = [op |-> "get"] @@ RSentinel
          ELSE /\ res'.kind = "tuple"
               /\ <<res'.id, res'.data>> = Head(sent)]_vars

\* two pairs were put, the second with a payload, and the latest get returned
\* the first while the second is still stored
C14_Witness ==
    /\ res.op = "get" /\ res.kind = "tuple" /\ res.id # 0
    /\ Len(sent) = 1 /\ sent[1][2] # <<>>
    /\ ring.head < ring.tail

\* the records a ring gives up to get() called until it returns the sentinel
RECURSIVE drain(_)
drain(r) ==
    LET a == get(r)
    IN IF a.res.kind = "tuple" /\ a.res.id # 0
       THEN <<(<<a.res.id, a.res.data>>)>> \o drain(a.r)
       ELSE <<>>

\* the ids of a queue of pairs, in order
ids_of(q) == [i \in 1..Len(q) |-> q[i][1]]

\* the bytes a queue of pairs takes in the arena
RECURSIVE bytes_of(_)
bytes_of(q) == IF q = <<>> THEN 0 ELSE HEADER + Len(Head(q)[2]) + bytes_of(Tail(q))

\* selective extraction: rings with room for three records, payloads of zero
\* bytes; put, pull, get, list
NextPull ==
    \/ RingPut(MsgIds, Runs(0))
    \/ RingPull(MsgIds \cup BadIds)
    \/ RingGet
    \/ RingList

SpecPull == InitRing({n + HEADER : n \in RingSizes}, 0) /\ [][NextPull]_vars

\* C15: in every state and for every id, pull(id) returns the payload of the
\* oldest stored pair with that id; afterwards list() and the records the ring
\* still gives up are the previous ones without that single pair, payloads and
\* order kept; when no stored pair has the id, or the id is outside 1..65535,
\* pull returns (0, b'') and changes nothing.
C15_PullOldestOnly ==
    /\ drain(ring) = sent
    /\ list(ring).res = RList(ids_of(sent))
    /\ \A id \in MsgIds \cup BadIds :
          LET a == pull(ring, id)
              rest == without_first(sent, id)
          IN IF \E i \in 1..Len(sent) : sent[i][1] = id
             THEN /\ a.res = RTuple(id, sent[First(ids_of(sent), id)][2])
                  /\ list(a.r).res = RList(ids_of(rest))
                  /\ drain(a.r) = rest
             ELSE a = [r |-> ring, res |-> RSentinel]

\* pull has just taken a record from the middle: an older pair with another id
\* and a younger pair with the same id are still stored, around a deleted record
C15_Witness ==
    /\ res.op = "pull" /\ res.kind = "tuple" /\ res.id # 0
    /\ Len(sent) = 2
    /\ sent[1][1] # res.id /\ sent[2][1] = res.id /\ sent[2][2] # res.data
    /\ ring.count > bytes_of(sent)

\* C16: on a ring that stores no pair, a put(id, p) that succeeds followed by
\* get returns exactly (id, p), and the byte count after the get is the byte
\* count before the put.
C16_PutGetRoundTrip ==
    sent = <<>> =>
        \A id \in MsgIds, p \in Payloads :
            LET a == put(ring, id, p)
                b == get(a.r)
            IN a.res = RNothing =>
                  /\ b.res = RTuple(id, p)
                  /\ len(b.r) = len(ring)

\* position in the arena: `twin` starts with its cursors moved by one put/get
\* pair, so that its records straddle the end of the arena where those of
\* `ring` do not
NextTwin ==
    \/ RingPut(MsgIds, Runs(BYTE - 1))
    \/ RingGet
    \/ RingPeek
    \/ RingPull(MsgIds)
    \/ RingList

SpecTwin == InitRing(RingSizes, 1) /\ [][NextTwin]_vars

\* a record of r, live or deleted, has its header or its payload on both sides
\* of the end of the arena
Straddles(r) == r.count > 0 /\ r.tail + r.count > r.size

\* C17: two rings of the same size given the same calls, one from head = tail
\* = 0 and one from cursors moved forward, return the same results and hold the
\* same byte count after every call.
C17_PositionIndependent ==
    /\ res2 = res
    /\ len(twin) = len(ring)

\* the cursors of the two rings differ, a record of twin straddles the end of
\* the arena where that of ring does not, and pull has just returned a record
\* from both
C17_Witness ==
    /\ twin.tail # ring.tail
    /\ Straddles(twin) /\ ~Straddles(ring)
    /\ res.op = "pull" /\ res.kind = "tuple" /\ res.id # 0 /\ res.data # <<>>
    /\ sent # <<>>

\* a ring that fills up: put with good and bad ids, get, pull
NextFull ==
    \/ RingPut(MsgIds \cup BadIds, Payloads)
    \/ RingGet
    \/ RingPull(MsgIds)

SpecFull == InitRing(RingSizes, 0) /\ [][NextFull]_vars

\* put(msg_id, msg_bytes) has to fail on r
must_fail(r, msg_id, msg_bytes) ==
    \/ r.size - r.count < HEADER + Len(msg_bytes)
    \/ msg_id < 1 \/ msg_id > U16_MAX

\* C18: in every state, a put that fails for lack of room or for an id outside
\* 1..65535 raises and leaves head, tail, count and the arena as they were, so
\* the ring still gives up the stored pairs, in order and intact.
C18_FailedPutChangesNothing ==
    \A id \in MsgIds \cup BadIds, p \in Payloads :
        LET a == put(ring, id, p)
        IN must_fail(ring, id, p) =>
              /\ a.res \in {RError("MemoryError"), RError("ValueError")}
              /\ a.r = ring
              /\ drain(a.r) = sent

\* put has just failed for lack of room on a ring that holds a pair with a
\* payload, and would have failed for its id as well
C18_Witness ==
    /\ res.op = "put" /\ res.kind = "MemoryError"
    /\ \E i \in 1..Len(sent) : sent[i][2] # <<>>
    /\ \E id \in BadIds : put(ring, id, <<>>).res = RError("ValueError")
    /\ space_left(ring) > 0

----------------------------------------------------------------------------
\* the tasks the heap or a flag waitlist refers to
Scheduled(w) == Range(w.heap) \cup {t \in DOMAIN w.objs : Waitlisted(w, t)}

\* C19: in every state, every task the heap or a flag waitlist refers to is in
\* the registry under its task_id.
C19_ReferencedAreRegistered ==
    \A t \in Scheduled(work) :
        LET tid == work.objs[t].task_id
        IN tid \in Registered(work) /\ work.tasks[tid] = t

\* C20: in every state between two iterations of the main loop, each task in
\* the registry whose flag is set is in flags[flag], or has event_triggered set
\* and an entry in the heap, cancelled tasks not yet reaped included.
C20_FlaggedIsWaitingOrWoken ==
    pc = "loop" =>
        \A tid \in Registered(work) :
            LET t == work.tasks[tid]
                o == work.objs[t]
            IN o.flag # NoFlag =>
                  \/ o.flag \in DOMAIN work.flags /\ t \in Range(work.flags[o.flag])
                  \/ o.event_triggered /\ t \in Range(work.heap)

----------------------------------------------------------------------------
\* one-shot tasks re-armed before they run: every call is made around start(),
\* none by a job, and no task is cancelled or stopped, so that a task leaves
\* the registry only when a run of it ends with repeat <= 0
NextOnce ==
    \/ pc = "idle" /\ CallDo({0})
    \/ pc = "idle" /\ CallAwait({"f"}, TaskIds)
    \/ pc = "idle" /\ CallTrigger({"f"}, {Tup(<<>>)})
    \/ pc = "idle" /\ CallSetRepeat(Intervals, TaskIds)
    \/ Tick \/ Start \/ Return \/ Loop

SpecOnce == InitWith(MaxTasks + 1, MaxCalls + 1) /\ [][NextOnce]_vars

\* the registry holds task t under its task_id
InRegistry(w, t) ==
    LET tid == w.objs[t].task_id
    IN tid \in Registered(w) /\ w.tasks[tid] = t

\* C21: a task dispatched with repeat = 0 is destroyed by that run and its job
\* is never called again: the run takes the task out of the registry, and no
\* step dispatches a task that a run has taken out of the registry.
C21_OneShotRunsOnce ==
    [][\A t \in DOMAIN work.objs :
          /\ (Completes(t) /\ work.objs[t].repeat = 0) => ~InRegistry(work', t)
          /\ Dispatches(t) => InRegistry(work, t)]_vars

----------------------------------------------------------------------------
\* persistent listeners on flag f next to one-shot tasks whose jobs may trigger
\* the flag; nothing else is done to the listeners
NextListen ==
    \/ CallOn({"f"}, {0}, {TRUE}, {0})
    \/ CallAt(Delays, {0})
    \/ CallTrigger({"f"}, {Tup(<<>>)})
    \/ Tick \/ Start \/ Return \/ Loop

SpecListen == InitWith(MaxTasks + 1, MaxCalls + 1) /\ [][NextListen]_vars

\* task t was registered with on(job, when=f, repeat=True)
Persistent(w, t, f) == w.objs[t].flag = f /\ w.objs[t].repeat > 0

\* this step is a call of the public method `op`
Calls(op) == calls' = calls - 1 /\ ret'.op = op

\* the number of entries of the heap that refer to t
Entries(w, t) == Cardinality({i \in DOMAIN w.heap : w.heap[i] = t})

\* C22: a listener registered with on(job, when=f, repeat=True) is in flags[f]
\* with event_triggered cleared after each of its runs; it is dispatched only
\* when a trigger_event(f) has woken it since its last run; once woken it is in
\* the heap until that one run; and every trigger_event(f) that finds it not
\* woken wakes it.
C22_PersistentListener ==
    [][\A t \in DOMAIN work.objs :
          Persistent(work, t, "f") =>
              /\ Completes(t) =>
                    /\ Persistent(work', t, "f")
                    /\ t \in Range(work'.flags["f"])
                    /\ ~work'.objs[t].event_triggered
              /\ Dispatches(t) => work.objs[t].event_triggered
              /\ (~work.objs[t].event_triggered /\ work'.objs[t].event_triggered)
                    => Calls("trigger_event")
              /\ (work.objs[t].event_triggered /\ ~(pc = "job" /\ cur = t))
                    => Dispatchable(work, t)
              /\ (Calls("trigger_event") /\ ~work.objs[t].event_triggered)
                    => /\ work'.objs[t].event_triggered
                       /\ Dispatchable(work', t)
                       /\ t \in Range(work'.flags["f"])]_vars

\* a listener that ran once and left its entry in the heap has been woken again
\* by the job of another task
C22_Witness ==
    \E t \in DOMAIN work.objs :
        /\ Persistent(work, t, "f")
        /\ work.objs[t].event_triggered
        /\ Entries(work, t) = 2
        /\ pc = "job" /\ cur # t
        /\ ret.op = "trigger_event"

----------------------------------------------------------------------------
\* running tasks that re-arm themselves on flag f: listeners on flag g and
\* one-shot tasks; flag g is triggered, flag f never is
NextRearm ==
    \/ CallOn({"g"}, {0}, BOOLEAN, {0})
    \/ CallAt(Delays, {0})
    \/ pc = "job" /\ CallAwait({"f"}, {0})
    \/ CallTrigger({"g"}, {Tup(<<>>)})
    \/ Tick \/ Start \/ Return \/ Loop

SpecRearm == InitWith(MaxTasks + 1, MaxCalls + 2) /\ [][NextRearm]_vars

\* C23: a task that called await_event(f) from its job is not dispatched again
\* before a trigger_event(f) issued after the call.  No trigger_event(f) is
\* issued here and only await_event sets the flag f, so no task whose flag is f
\* is ever dispatched.
C23_RearmedWaitsForItsFlag ==
    [][\A t \in DOMAIN work.objs :
          Dispatches(t) => work.objs[t].flag # "f"]_vars

----------------------------------------------------------------------------
\* repeating tasks whose jobs cancel the task they belong to, next to tasks
\* cancelled before start()
CallCancelSelf == pc = "job" /\ CallCancel({work.objs[cur].task_id})

NextAbort ==
    \/ CallRepeat({0}, Everys, {0})
    \/ pc = "job" /\ CallAbort
    \/ CallCancelSelf
    \/ pc = "idle" /\ CallCancel(TaskIds)
    \/ Tick \/ Start \/ Return \/ Loop

SpecAbort == InitWith(MaxTasks + 1, MaxCalls) /\ [][NextAbort]_vars

\* C24: abort_current_task() and cancel(own id) called by the job of a
\* repeating task mark that task cancelled; when the job returns the task is
\* not pushed back on the heap and is out of the registry, the loop stops if
\* the registry is then empty, and the task is never dispatched again.
C24_SelfCancelEndsTask ==
    [][\A t \in DOMAIN work.objs :
          /\ (pc = "job" /\ cur = t
                /\ (Calls("abort_current_task") \/ Calls("cancel")))
                => /\ ret'.val = 1
                   /\ work'.objs[t].cancelled
          /\ (Completes(t) /\ work.objs[t].repeat > 0 /\ work.objs[t].cancelled)
                => /\ t \notin Range(work'.heap)
                   /\ work.objs[t].task_id \notin Registered(work')
                   /\ Registered(work') = {} => ~work'.running
          /\ work.objs[t].cancelled
                => /\ ~Dispatches(t)
                   /\ work'.objs[t].cancelled \/ t \notin Live(work', cur')]_vars

\* the job of the only task, a repeating one, called abort_current_task() and
\* returned: the registry and the heap are empty and the loop is about to exit
C24_Witness ==
    /\ pc = "loop"
    /\ ret = Returned("abort_current_task", RBool(TRUE))
    /\ work.task_counter = 1
    /\ Registered(work) = {} /\ work.heap = <<>>
    /\ ~work.running

----------------------------------------------------------------------------
\* timers next to re-armed tasks: at() tasks have delay 2 and a task_id chosen
\* by the caller, do() tasks have delay 0; await_event and set_repeat are
\* applied to do() tasks only, nothing is cancelled and stop() is not called
Plain(w) == {tid \in Registered(w) : w.objs[w.tasks[tid]].delay = 0}

NextLive ==
    \/ CallDo({0})
    \/ CallAt({2}, {1})
    \/ CallAwait({"f"}, Plain(work))
    \/ CallTrigger({"f"}, {Tup(<<>>)})
    \/ CallSetRepeat({0}, Plain(work))
    \/ Tick \/ Start \/ Return \/ Loop

SpecLive == InitWith(MaxTasks + 1, MaxCalls + 2) /\ [][NextLive]_vars

\* C25: with no stop(), a task scheduled with at() that is never cancelled and
\* never re-armed is dispatched in the end; in particular start() does not
\* return while such a task is in the heap.
C25_NoExitWhileWaiting ==
    [][(pc = "loop" /\ pc' = "idle") =>
          \A t \in Range(work.heap) : work.objs[t].delay # 2]_vars

----------------------------------------------------------------------------
\* task ids: generated (0) and supplied by the caller, inside and outside the
\* range of the generated ones
GivenIds == {0, 2, -1, ID_MODULUS + 1}

NextIds ==
    \/ CallAt(Delays, GivenIds)
    \/ CallOn({"f"}, {0}, {FALSE}, GivenIds)
    \/ CallCancel(TaskIds)
    \/ Tick \/ Start \/ Return \/ Loop

SpecIds == InitWith(MaxTasks + 1, MaxCalls) /\ [][NextIds]_vars

\* C26: every task in the registry is registered under its own task_id, which
\* lies in 1..1_000_000, and a scheduling call leaves the entries the registry
\* already holds as they are.
C26_IdsUniqueInRange ==
    [][/\ \A tid \in Registered(work) :
             /\ tid \in 1..ID_MODULUS
             /\ work.objs[work.tasks[tid]].task_id = tid
       /\ (Calls("at") \/ Calls("on")) =>
             \A tid \in Registered(work) :
                 tid \in Registered(work') /\ work'.tasks[tid] = work.tasks[tid]]_vars

----------------------------------------------------------------------------
\* Work._generate_task_id on crowded registries.

\* Work() without argument
MAX_TASKS_DEFAULT == 256

\* the id k steps after counter c in the cyclic order 1..ID_MODULUS
cyc(c, k) == ((c + k - 1) % ID_MODULUS) + 1

\* the registry after do(job, task_id=i) for each i of ids at time 0, on a Work
\* whose counter stands at c: the tasks have equal next_run, so that heappush
\* leaves each at the end of the heap
Filled(c, ids) ==
    [Work(MAX_TASKS_DEFAULT, 0) EXCEPT
        !.task_counter = c,
        !.objs = [i \in DOMAIN ids |-> Task(<<>>, 0, 0, NoFlag, ids[i], 0)],
        !.heap = [i \in DOMAIN ids |-> i],
        !.tasks = [id \in Range(ids) |-> CHOOSE i \in DOMAIN ids : ids[i] = id]]

\* the n ids after c, without the one at position `hole` (0: none missing)
Block(c, n, hole) ==
    LET ks == IF hole \in 1..n THEN [i \in 1..(n - 1) |-> IF i < hole THEN i ELSE i + 1]
              ELSE [i \in 1..n |-> i]
    IN [i \in DOMAIN ks |-> cyc(c, ks[i])]

\* counters at the start, in the middle and at the end of the cycle
Counters == {0, ID_PROBES, ID_MODULUS - 1, ID_MODULUS}
Crowds == {0, 1, ID_PROBES - 1, ID_PROBES, ID_PROBES + 1}
Holes == {0, 1, 2, ID_PROBES - 1, ID_PROBES}

InitGen ==
    /\ \E c \in Counters, n \in Crowds, h \in Holes : work = Filled(c, Block(c, n, h))
    /\ clock = 0
    /\ pc = "idle"
    /\ now = 0
    /\ cur = 0
    /\ args = <<>>
    /\ ret = NoCall
    /\ calls = MaxCalls - 1
    /\ batch = NoBatch
    /\ NoRing

NextGen ==
    \/ CallDo({0})
    \/ CallOn({"f"}, {0}, {FALSE}, {0})

SpecGen == InitGen /\ [][NextGen]_vars

\* the probes that find a free id
FreeProbes(w) == {k \in 1..ID_PROBES : cyc(w.task_counter, k) \notin Registered(w)}

\* C27: in every state, the generated id is the first of the ID_PROBES ids after
\* the counter, in cyclic order, that is not a key of the registry, and the
\* counter is left on it; when all of them are taken, a scheduling call raises
\* and leaves registry, heap and flag waitlists as they were.
C27_FirstFreeId ==
    LET g == generate_task_id(work)
        free == FreeProbes(work)
        first == CHOOSE k \in free : \A j \in free : k <= j
        d == do(work, clock, Tup(<<>>), 0)
        o == on(work, clock, Tup(<<>>), "f", 0, FALSE, 0)
    IN IF free # {}
       THEN /\ g = [ok |-> TRUE, id |-> cyc(work.task_counter, first),
                    counter |-> cyc(work.task_counter, first)]
            /\ d.ret = RInt(g.id) /\ o.ret = RInt(g.id)
       ELSE /\ ~g.ok
            /\ \A r \in {d, o} :
                  /\ r.ret = RRaise
                  /\ r.w.tasks = work.tasks
                  /\ r.w.heap = work.heap
                  /\ r.w.flags = work.flags
                  /\ r.w.objs = work.objs

\* do() has just raised on a registry whose taken ids wrap from 1_000_000 to 1,
\* while the id the counter stood on before the call is free
C27_Witness ==
    /\ ret = Returned("do", RRaise)
    /\ ID_MODULUS \in Registered(work) /\ 1 \in Registered(work)
    /\ ID_MODULUS - 1 \notin Registered(work)
    /\ work.task_counter = ID_PROBES - 1

----------------------------------------------------------------------------
\* s without the cancelled tasks, order kept
RECURSIVE not_cancelled(_, _)
not_cancelled(w, lst) ==
    IF lst = <<>> THEN <<>>
    ELSE (IF w.objs[Head(lst)].cancelled THEN <<>> ELSE <<Head(lst)>>)
            \o not_cancelled(w, Tail(lst))

\* C28: in every state and at every later instant, a cleanup pass that fires (at
\* least CLEANUP_MS after the previous one) leaves no cancelled task in the
\* registry or in a waitlist and no empty waitlist, keeps every other task
\* registered and every waitlist in its order, and leaves the heap and the tasks
\* themselves as they were; a pass that comes earlier changes nothing.
C28_CleanupFrame ==
    \A c \in Later(0) :
        LET r == cleanup_lazy(work, c)
        IN IF c - work.last_cleanup < CLEANUP_MS THEN r = work
           ELSE /\ \A tid \in Registered(r) : ~r.objs[r.tasks[tid]].cancelled
                /\ \A tid \in Registered(work) :
                      ~work.objs[work.tasks[tid]].cancelled =>
                          tid \in Registered(r) /\ r.tasks[tid] = work.tasks[tid]
                /\ Registered(r) \subseteq Registered(work)
                /\ DOMAIN r.flags =
                      {k \in DOMAIN work.flags : not_cancelled(work, work.flags[k]) # <<>>}
                /\ \A k \in DOMAIN r.flags : r.flags[k] = not_cancelled(work, work.flags[k])
                /\ r.heap = work.heap
                /\ r.objs = work.objs
                /\ r = [work EXCEPT !.last_cleanup = c, !.tasks = r.tasks, !.flags = r.flags]

\* a pass has fired in the loop: a cancelled task is gone from the registry and
\* still has its heap entry, next to a task that stayed registered
C28_Witness ==
    /\ work.last_cleanup >= CLEANUP_MS
    /\ \E t \in Range(work.heap) : work.objs[t].cancelled /\ ~InRegistry(work, t)
    /\ Registered(work) # {}

----------------------------------------------------------------------------
\* every method of the ring, on a ring with room for three records
NextRing ==
    \/ RingPut(MsgIds, Runs(BYTE - 1))
    \/ RingGet
    \/ RingPeek
    \/ RingPull(MsgIds)
    \/ RingList
    \/ RingClear

SpecRing == InitRing({RING_MIN + HEADER}, 0) /\ [][NextRing]_vars

\* the n bytes from ptr on are whole records, live or deleted
RECURSIVE whole_records(_, _, _)
whole_records(r, ptr, n) ==
    IF n = 0 THEN TRUE
    ELSE IF n < HEADER THEN FALSE
    ELSE LET total_len == get_header(r, ptr)[2]
         IN total_len <= n /\ whole_records(r, advance(r, ptr, total_len), n - total_len)

\* C29: in every state of a ring under put, get, peek, pull, list and clear,
\* 0 <= count <= size, head = (tail + count) mod size, and the count bytes
\* from tail are whole records whose lengths 4 + L add up to count.
C29_RingWellFormed ==
    /\ 0 <= ring.count /\ ring.count <= ring.size
    /\ ring.head = (ring.tail + ring.count) % ring.size
    /\ whole_records(ring, ring.tail, ring.count)

\* a deleted record lies between two live ones, and the records wrap around the
\* end of the arena
C29_Witness ==
    /\ Len(sent) = 2
    /\ ring.count > bytes_of(sent)
    /\ get_header(ring, ring.tail)[1] # 0
    /\ Straddles(ring)
    /\ res.op = "pull" /\ res.kind = "tuple" /\ res.id # 0

\* C30: in every state of a ring, peek and list leave head, tail, count and
\* the arena as they are; peek returns None exactly when a get in its place
\* returns (0, b''), and otherwise the pair that get returns.
C30_PeekPreviewsGet ==
    LET p == peek(ring)
        g == get(ring)
    IN /\ p.r = ring
       /\ list(ring).r = ring
       /\ (p.res = RNothing) <=> (g.res = RSentinel)
       /\ p.res # RNothing => p.res = g.res /\ p.res.kind = "tuple" /\ p.res.id # 0

\* peek has just returned a pair with a payload from a ring whose record at the
\* tail is a deleted one
C30_Witness ==
    /\ res.op = "peek" /\ res.kind = "tuple" /\ res.data # <<>>
    /\ ring.count > bytes_of(sent)
    /\ get_header(ring, ring.tail)[1] = 0
    /\ <<res.id, res.data>> = Head(sent)

\* C31: in every state of a ring under put, get and pull, when list() is empty
\* the space of the deleted records has been given back: count is 0,
\* is_empty() is true, and a put of any record with 4 + len(payload) <= size
\* succeeds.
C31_EmptyListMeansEmptyRing ==
    list(ring).res = RList(<<>>) =>
        /\ len(ring) = 0
        /\ is_empty(ring)
        /\ \A id \in MsgIds, p \in Payloads :
              HEADER + Len(p) <= ring.size => put(ring, id, p).res = RNothing

====
